---- MODULE Spec2Model ----
(***************************************************************************)
(* Model of two pieces of the XRT stack:                                   *)
(*   - xrt_core::device (user space): register_axlf, get_axlf_section,     *)
(*     get_axlf_section_or_error and get_ert_slots;                        *)
(*   - xocl_sysfs.c (kernel): the four binary attribute read callbacks and *)
(*     xocl_init_sysfs / xocl_fini_sysfs.                                  *)
(* Three specifications share the variables: SpecDevice, SpecErt and       *)
(* SpecSysfs; each leaves the other parts' variables at their initial      *)
(* values.                                                                 *)
(***************************************************************************)
EXTENDS Integers, Sequences, FiniteSets, TLC

VARIABLES
  m_xclbin_uuid,    \* device::m_xclbin_uuid
  m_axlf_sections,  \* device::m_axlf_sections : kind -> vector<char>
  registered,       \* history: <<top>> of the most recent register_axlf, <<>> before
  ert_slotsize,     \* config::get_ert_slotsize(), the xrt.ini value (0 = unset)
  xml,              \* the xclbin metadata handed to get_ert_slots
  xdev,             \* struct xocl_dev: the four section pointers
  sysfs_group,      \* names of the sysfs files of dev->kobj
  ret               \* the last call and what it returned or threw

vars == <<m_xclbin_uuid, m_axlf_sections, registered, ert_slotsize, xml,
          xdev, sysfs_group, ret>>

deviceVars == <<m_xclbin_uuid, m_axlf_sections, registered>>
ertVars == <<ert_slotsize, xml>>
sysfsVars == <<xdev, sysfs_group>>

Min(a, b) == IF a < b THEN a ELSE b
Max(a, b) == IF a > b THEN a ELSE b

NoCall == [op |-> "none"]

(***************************************************************************)
(* Bounds of the model.                                                    *)
(***************************************************************************)
MaxUuid == 2            \* uuids are 0 (null) .. MaxUuid
MaxSectionSize == 1     \* m_sectionSize of an axlf section is 0..MaxSectionSize
MaxAxlfSections == 1    \* an axlf holds at most this many sections
MaxIniExp == 17         \* xrt.ini slot sizes are 0 and 2^0 .. 2^MaxIniExp
MaxCus == 65            \* compute units in an xclbin: 0..MaxCus
CuSizeStep == 1024      \* max CU sizes are multiples of CuSizeStep
MaxCuSteps == 65        \* ... up to CuSizeStep * MaxCuSteps
MaxMCount == 1          \* m_count of a loaded section header: 0..MaxMCount
SectHdrSize == 2        \* bytes of a section before its data array
SectElemSize == 6       \* bytes of one element of the data array
MaxOffset == 9          \* read offsets (file positions, never negative) are 0..MaxOffset
MaxReadCount == 6       \* read counts are 0..MaxReadCount (kernfs passes at most PAGE_SIZE)
U32Mod == 8             \* u32 arithmetic is modulo U32Mod (stands for 2^32)

(***************************************************************************)
(* xrt_core::device : axlf sections                                        *)
(***************************************************************************)
NullUuid == 0
Uuids == 0..MaxUuid

\* the kinds register_axlf keeps, in the order of its array
kinds == <<"EMBEDDED_METADATA", "AIE_METADATA", "IP_LAYOUT", "CONNECTIVITY", "MEM_TOPOLOGY">>

\* section kinds an axlf file may hold or a caller may ask for
AxlfKinds == {kinds[i] : i \in 1..Len(kinds)} \cup {"BITSTREAM"}

SectionBytes == UNION {[1..n -> {65}] : n \in 0..MaxSectionSize}

\* an axlf: its header uuid and its sections (kind -> bytes of the section)
Axlfs ==
  {[uuid |-> u, sections |-> s] :
     u \in Uuids,
     s \in UNION {[K -> SectionBytes] :
                    K \in {X \in SUBSET AxlfKinds : Cardinality(X) <= MaxAxlfSections}}}

\* m_axlf_sections.clear(): the empty map
NoSections == [k \in {} |-> <<>>]

\* ::xclbin::get_axlf_section(top, kind): the section header, or NULL
xclbin_get_axlf_section(top, kind) ==
  IF kind \in DOMAIN top.sections THEN <<kind>> ELSE <<>>

\* the loop of register_axlf over kinds[i..]: sections emplaced into map m
RECURSIVE register_loop(_, _, _)
register_loop(top, i, m) ==
  IF i > Len(kinds) THEN m
  ELSE LET kind == kinds[i]
           hdr == xclbin_get_axlf_section(top, kind)
       IN IF hdr = <<>>
          THEN register_loop(top, i + 1, m)
          ELSE register_loop(top, i + 1,
                 IF kind \in DOMAIN m THEN m
                 ELSE [k \in DOMAIN m \cup {kind} |->
                         IF k = kind THEN top.sections[kind] ELSE m[k]])

register_axlf(top) ==
  /\ ret = NoCall
  /\ m_axlf_sections' = register_loop(top, 1, NoSections)
  /\ m_xclbin_uuid' = top.uuid
  /\ registered' = <<top>>
  /\ ret' = [op |-> "register_axlf"]
  /\ UNCHANGED <<ertVars, sysfsVars>>

\* std::vector<char>::data(): the buffer of the vector stored for `section`;
\* for an empty vector the pointer may or may not be null
vector_data(section) ==
  IF Len(m_axlf_sections[section]) = 0 THEN {"nullptr", section} ELSE {section}

uuid_mismatch_always(xclbin_id) == xclbin_id # m_xclbin_uuid

\* the guard of the throw in get_axlf_section
uuid_mismatch(xclbin_id) ==
  xclbin_id # NullUuid /\ xclbin_id # m_xclbin_uuid

\* the outcomes of device::get_axlf_section
axlf_section_results(section, xclbin_id) ==
  IF uuid_mismatch(xclbin_id)
  THEN {[threw |-> "xclbin id mismatch", first |-> "nullptr", second |-> 0]}
  ELSE IF section \in DOMAIN m_axlf_sections
       THEN {[threw |-> "", first |-> p, second |-> Len(m_axlf_sections[section])] :
               p \in vector_data(section)}
       ELSE {[threw |-> "", first |-> "nullptr", second |-> 0]}

get_axlf_section(section, xclbin_id) ==
  /\ ret = NoCall
  /\ \E r \in axlf_section_results(section, xclbin_id) :
       ret' = [op |-> "get_axlf_section", section |-> section, xclbin_id |-> xclbin_id,
               threw |-> r.threw, first |-> r.first, second |-> r.second]
  /\ UNCHANGED <<deviceVars, ertVars, sysfsVars>>

get_axlf_section_or_error(section, xclbin_id) ==
  /\ ret = NoCall
  /\ \E r \in axlf_section_results(section, xclbin_id) :
       ret' = [op |-> "get_axlf_section_or_error", section |-> section,
               xclbin_id |-> xclbin_id,
               threw |-> IF r.threw # "" THEN r.threw
                         ELSE IF r.first # "nullptr" THEN ""
                         ELSE "no such xclbin section",
               first |-> IF r.threw = "" /\ r.first # "nullptr" THEN r.first ELSE "nullptr",
               second |-> IF r.threw = "" /\ r.first # "nullptr" THEN r.second ELSE 0]
  /\ UNCHANGED <<deviceVars, ertVars, sysfsVars>>

\* the caller takes the outcome of its call; the device is used by one caller at
\* a time, so the next call starts after the previous one has returned or thrown
call_returns ==
  /\ ret.op \in {"register_axlf", "get_axlf_section", "get_axlf_section_or_error"}
  /\ ret' = NoCall
  /\ UNCHANGED <<deviceVars, ertVars, sysfsVars>>

InitDevice ==
  /\ m_xclbin_uuid = NullUuid
  /\ m_axlf_sections = NoSections
  /\ registered = <<>>

(***************************************************************************)
(* xrt_core::device::get_ert_slots                                         *)
(***************************************************************************)
ERT_CQ_SIZE == 65536
max_slots == 128
min_slots == 16

RECURSIVE Pow2(_)
Pow2(k) == IF k = 0 THEN 1 ELSE 2 * Pow2(k - 1)

\* values of the xrt.ini slot size
IniSlotSizes == {0} \cup {Pow2(k) : k \in 0..MaxIniExp}

\* the xclbin metadata, reduced to what get_ert_slots reads from it
XmlDatas ==
  {[num_cus |-> c, max_cu_size |-> CuSizeStep * k] : c \in 0..MaxCus, k \in 0..MaxCuSteps}

\* xrt_core::xclbin::get_cus(xml_data, xml_size).size()
get_cus_size(x) == x.num_cus

\* xrt_core::xclbin::get_max_cu_size(xml_data, xml_size)
get_max_cu_size(x) == x.max_cu_size

ert_desired_slots_uncapped(num_cus) == Max(min_slots, (num_cus * 2) + 1)

\* slots = std::min(max_slots, std::max(min_slots, (num_cus * 2) + 1))
ert_desired_slots(num_cus) ==
  Min(max_slots, Max(min_slots, (num_cus * 2) + 1))

\* size = std::max(cq_size / slots, get_max_cu_size(...))
ert_slot_size(slots, x) ==
  Max(ERT_CQ_SIZE \div slots, get_max_cu_size(x))

ert_round_slots_down(slots) ==
  IF slots > 16 THEN ((slots \div 32) + 1) * 32 ELSE slots

\* the rounding of the slot count to a status register boundary
ert_round_slots(slots) ==
  IF slots > 16
  THEN LET idx == (slots - 1) \div 32 IN (idx + 1) * 32
  ELSE slots

ErtThrow(msg) ==
  [threw |-> msg, fault |-> "", first |-> 0, second |-> 0, computed |-> 0]

ErtReturn(slots, size, computed) ==
  [threw |-> "", fault |-> "", first |-> slots, second |-> size, computed |-> computed]

\* the outcomes of get_ert_slots(xml_data, xml_size) with the xrt.ini value ini
ert_slots_results(ini, x) ==
  LET cq_size == ERT_CQ_SIZE IN
  IF ini # 0
  THEN IF (cq_size \div ini) > max_slots
       THEN {ErtThrow("invalid slot size in xrt.ini")}
       ELSE {ErtReturn(cq_size \div ini, ini, cq_size \div ini)}
  ELSE LET num_cus == get_cus_size(x)
           slots0 == ert_desired_slots(num_cus)
           size == ert_slot_size(slots0, x)
           slots1 == cq_size \div size
           slots2 == ert_round_slots(slots1)
       IN IF slots2 = 0
          \* cq_size / 0 is undefined: the division traps (x86) or yields 0 (arm)
          THEN {[threw |-> "", fault |-> "SIGFPE", first |-> 0, second |-> 0,
                 computed |-> slots1],
                ErtReturn(slots2, 0, slots1)}
          ELSE {ErtReturn(slots2, cq_size \div slots2, slots1)}

get_ert_slots ==
  /\ \E r \in ert_slots_results(ert_slotsize, xml) :
       ret' = [op |-> "get_ert_slots", threw |-> r.threw, fault |-> r.fault,
               first |-> r.first, second |-> r.second, computed |-> r.computed]
  /\ UNCHANGED <<deviceVars, ertVars, sysfsVars>>

ErtReturned ==
  ret.op = "get_ert_slots" /\ ret.threw = "" /\ ret.fault = ""

InitErt ==
  /\ ert_slotsize = 0
  /\ xml = [num_cus |-> 0, max_cu_size |-> 0]

(***************************************************************************)
(* xocl_sysfs.c                                                            *)
(***************************************************************************)
\* xocl_attrs[]
xocl_attrs ==
  {"xclbinuuid", "userbar", "kdsstat", "memstat", "memstat_raw", "user_pf", "reset"}

\* xocl_bin_attrs[]
xocl_bin_attrs == {"debug_ip_layout", "ip_layout", "connectivity", "mem_topology"}

\* xocl_attr_group
xocl_attr_group == [attrs |-> xocl_attrs, bin_attrs |-> xocl_bin_attrs]

\* the fields of struct xocl_dev the read callbacks use
SectFields == {"debug_layout", "layout", "connectivity", "topology"}

\* the NULL section pointer (a non-NULL one has ptr = TRUE and its header's m_count)
SectNull == [ptr |-> FALSE, m_count |-> 0]

\* sizeof_sect(sect, data): 0 for NULL, else the header plus m_count elements
sizeof_sect(sect) ==
  IF sect.ptr THEN SectHdrSize + sect.m_count * SectElemSize ELSE 0

\* the byte at ((char *)sect) + i: a byte of the section, or memory past it
kmem(field, i) ==
  IF i < sizeof_sect(xdev[field])
  THEN [sect |-> field, off |-> i]
  ELSE [sect |-> "beyond", off |-> i]

\* assignment to a u32
U32(x) == x % U32Mod

bin_nread_unclamped(size, offset, count) ==
  IF offset >= size THEN 0 ELSE U32(count)

\* nread of the read callbacks: 0 on the early return, else the clamped count,
\* narrowed to the u32 it is stored in
bin_nread(size, offset, count) ==
  IF offset >= size THEN 0
  ELSE IF count < size - offset THEN U32(count) ELSE U32(size - offset)

\* memcpy(buffer, ((char *)sect) + offset, nread)
memcpy_sect(field, offset, nread) ==
  [j \in 1..nread |-> kmem(field, offset + j - 1)]

read_debug_ip_layout(offset, count) ==
  /\ "debug_ip_layout" \in sysfs_group
  /\ LET size == sizeof_sect(xdev.debug_layout)
         nread == bin_nread(size, offset, count)
     IN ret' = [op |-> "read_debug_ip_layout", field |-> "debug_layout",
                offset |-> offset, count |-> count, val |-> nread,
                buffer |-> memcpy_sect("debug_layout", offset, nread)]
  /\ UNCHANGED <<deviceVars, ertVars, sysfsVars>>

read_ip_layout(offset, count) ==
  /\ "ip_layout" \in sysfs_group
  /\ LET size == sizeof_sect(xdev.layout)
         nread == bin_nread(size, offset, count)
     IN ret' = [op |-> "read_ip_layout", field |-> "layout",
                offset |-> offset, count |-> count, val |-> nread,
                buffer |-> memcpy_sect("layout", offset, nread)]
  /\ UNCHANGED <<deviceVars, ertVars, sysfsVars>>

read_connectivity(offset, count) ==
  /\ "connectivity" \in sysfs_group
  /\ LET size == sizeof_sect(xdev.connectivity)
         nread == bin_nread(size, offset, count)
     IN ret' = [op |-> "read_connectivity", field |-> "connectivity",
                offset |-> offset, count |-> count, val |-> nread,
                buffer |-> memcpy_sect("connectivity", offset, nread)]
  /\ UNCHANGED <<deviceVars, ertVars, sysfsVars>>

read_mem_topology(offset, count) ==
  /\ "mem_topology" \in sysfs_group
  /\ LET size == sizeof_sect(xdev.topology)
         nread == bin_nread(size, offset, count)
     IN ret' = [op |-> "read_mem_topology", field |-> "topology",
                offset |-> offset, count |-> count, val |-> nread,
                buffer |-> memcpy_sect("topology", offset, nread)]
  /\ UNCHANGED <<deviceVars, ertVars, sysfsVars>>

\* sysfs_create_group(&dev->kobj, &xocl_attr_group): 0 and the files exist, or
\* an error code and no file is added (-EEXIST when the files exist already)
sysfs_create_group_results(grp) ==
  IF sysfs_group # {}
  THEN {[rc |-> -17, files |-> sysfs_group]}
  ELSE {[rc |-> 0, files |-> grp.attrs \cup grp.bin_attrs],
        [rc |-> -12, files |-> sysfs_group]}

init_sysfs_return_zero(rc) == 0

\* return ret;
init_sysfs_return(rc) == rc

xocl_init_sysfs ==
  /\ \E r \in sysfs_create_group_results(xocl_attr_group) :
       /\ sysfs_group' = r.files
       /\ ret' = [op |-> "xocl_init_sysfs", rc |-> r.rc, val |-> init_sysfs_return(r.rc),
                  log |-> IF r.rc # 0
                          THEN <<<<"create xocl attrs failed: %d", r.rc>>>>
                          ELSE <<>>]
  /\ UNCHANGED <<deviceVars, ertVars, xdev>>

xocl_fini_sysfs ==
  /\ sysfs_group # {}
  /\ sysfs_group' = {}
  /\ ret' = [op |-> "xocl_fini_sysfs"]
  /\ UNCHANGED <<deviceVars, ertVars, xdev>>

\* the section pointers an xclbin download can leave in xdev: the sections in
\* `present` point at buffers whose headers hold m_count, the others are NULL
Downloads ==
  {[f \in SectFields |-> IF f \in present THEN [ptr |-> TRUE, m_count |-> n] ELSE SectNull] :
     present \in SUBSET SectFields, n \in 0..MaxMCount}

\* an xclbin download replaces the section pointers of xdev
download_xclbin(sections) ==
  /\ xdev' = sections
  /\ ret' = [op |-> "download_xclbin"]
  /\ UNCHANGED <<deviceVars, ertVars, sysfs_group>>

InitSysfs ==
  /\ xdev = [f \in SectFields |-> SectNull]
  /\ sysfs_group = {}

(***************************************************************************)
(* Specifications                                                          *)
(***************************************************************************)
InitDev == InitDevice /\ InitErt /\ InitSysfs /\ ret = NoCall

NextDevice ==
  \/ \E top \in Axlfs : register_axlf(top)
  \/ \E section \in AxlfKinds, id \in Uuids : get_axlf_section(section, id)
  \/ \E section \in AxlfKinds, id \in Uuids : get_axlf_section_or_error(section, id)
  \/ call_returns

SpecDevice == InitDev /\ [][NextDevice]_vars

InitErtInputs ==
  /\ InitDevice /\ InitSysfs /\ ret = NoCall
  /\ ert_slotsize \in IniSlotSizes
  /\ xml \in XmlDatas

NextErt == get_ert_slots

SpecErt == InitErtInputs /\ [][NextErt]_vars

NextSysfs ==
  \/ xocl_init_sysfs
  \/ xocl_fini_sysfs
  \/ \E sections \in Downloads : download_xclbin(sections)
  \/ \E offset \in 0..MaxOffset, count \in 0..MaxReadCount : read_debug_ip_layout(offset, count)
  \/ \E offset \in 0..MaxOffset, count \in 0..MaxReadCount : read_ip_layout(offset, count)
  \/ \E offset \in 0..MaxOffset, count \in 0..MaxReadCount : read_connectivity(offset, count)
  \/ \E offset \in 0..MaxOffset, count \in 0..MaxReadCount : read_mem_topology(offset, count)

SpecSysfs == InitDev /\ [][NextSysfs]_vars

(***************************************************************************)
(* Claims                                                                  *)
(***************************************************************************)
\* the uuid recorded by the most recent register_axlf (the null uuid before any)
RecordedUuid == IF Len(registered) = 0 THEN NullUuid ELSE registered[1].uuid

\* the kinds the most recent register_axlf stored: those of its list the axlf holds
StoredKinds ==
  IF Len(registered) = 0 THEN {}
  ELSE {kinds[i] : i \in 1..Len(kinds)} \cap DOMAIN registered[1].sections

SectOps ==
  {"read_debug_ip_layout", "read_ip_layout", "read_connectivity", "read_mem_topology"}

\* C1: a read of a binary attribute at offset with count, against a section of
\* size S, returns 0 and copies nothing when offset >= S; otherwise it returns
\* min(count, S - offset) and copies exactly the section bytes
\* [offset, offset + returned); no byte at or beyond S is copied.
C1_BinRead ==
  ret.op \in SectOps =>
    LET S == sizeof_sect(xdev[ret.field]) IN
    /\ ret.offset >= S => (ret.val = 0 /\ ret.buffer = <<>>)
    /\ ret.offset < S =>
         /\ ret.val = Min(ret.count, S - ret.offset)
         /\ ret.buffer = [j \in 1..ret.val |-> [sect |-> ret.field, off |-> ret.offset + j - 1]]
    /\ \A j \in 1..Len(ret.buffer) :
         ret.buffer[j].sect # "beyond" /\ ret.buffer[j].off < S

\* a read that stops at the end of the section: count reaches past S
C1_Witness ==
  /\ ret.op \in SectOps
  /\ ret.offset > 0
  /\ ret.offset < sizeof_sect(xdev[ret.field])
  /\ ret.count > sizeof_sect(xdev[ret.field]) - ret.offset
  /\ ret.val = sizeof_sect(xdev[ret.field]) - ret.offset
  /\ Len(ret.buffer) = ret.val

\* C2: get_axlf_section throws "xclbin id mismatch" exactly when xclbin_id is
\* non-null and differs from the uuid of the most recent register_axlf; otherwise
\* it returns the data and size of the stored section, or (nullptr, 0) when the
\* kind is not stored.
C2_IdMismatch ==
  ret.op = "get_axlf_section" =>
    /\ ret.threw \in {"", "xclbin id mismatch"}
    /\ (ret.threw = "xclbin id mismatch")
         <=> (ret.xclbin_id # NullUuid /\ ret.xclbin_id # RecordedUuid)
    /\ ret.threw = "" =>
         IF ret.section \in StoredKinds
         THEN /\ ret.second = Len(registered[1].sections[ret.section])
              /\ ret.first = ret.section \/ (ret.second = 0 /\ ret.first = "nullptr")
         ELSE ret.first = "nullptr" /\ ret.second = 0

\* a matching non-null id returns a stored, non-empty section
C2_Witness ==
  /\ ret.op = "get_axlf_section"
  /\ ret.xclbin_id # NullUuid
  /\ ret.xclbin_id = RecordedUuid
  /\ ret.threw = ""
  /\ ret.section \in StoredKinds
  /\ ret.first = ret.section
  /\ ret.second > 0

\* C3: get_axlf_section_or_error throws "no such xclbin section" exactly when
\* the id check passed and the requested section was not stored by the most
\* recent register_axlf; every stored section, also one of size 0, is returned
\* with its data and size.
C3_NoSuchSection ==
  (ret.op = "get_axlf_section_or_error" /\ ret.threw # "xclbin id mismatch") =>
    /\ (ret.threw = "no such xclbin section") <=> (ret.section \notin StoredKinds)
    /\ ret.section \in StoredKinds =>
         /\ ret.threw = ""
         /\ ret.second = Len(registered[1].sections[ret.section])

\* C4: with a non-zero xrt.ini slot size, get_ert_slots throws when
\* ERT_CQ_SIZE / size exceeds 128 and otherwise returns (ERT_CQ_SIZE / size,
\* size); no invalid configuration (one that leaves no slot in the command
\* queue) is returned as a slot layout.
C4_IniSlotSize ==
  (ret.op = "get_ert_slots" /\ ert_slotsize # 0) =>
    /\ ret.fault = ""
    /\ (ERT_CQ_SIZE \div ert_slotsize > 128) => ret.threw # ""
    /\ (ERT_CQ_SIZE \div ert_slotsize <= 128) =>
         /\ ret.threw = ""
         /\ ret.first = ERT_CQ_SIZE \div ert_slotsize
         /\ ret.second = ert_slotsize
    /\ ret.threw = "" => (ret.first >= 1 /\ ret.first <= 128)

\* C5: xocl_init_sysfs returns 0 when the group (7 attributes, 4 binary
\* attributes) was created; when creation fails it logs the failure and
\* returns the creation error code unchanged.
C5_InitSysfs ==
  ret.op = "xocl_init_sysfs" =>
    /\ ret.val = ret.rc
    /\ ret.rc # 0 => ret.log = <<<<"create xocl attrs failed: %d", ret.rc>>>>
    /\ ret.rc = 0 => ret.log = <<>>
    /\ ret.val = 0 =>
         /\ sysfs_group = xocl_attrs \cup xocl_bin_attrs
         /\ Cardinality(xocl_attrs) = 7
         /\ Cardinality(xocl_bin_attrs) = 4

\* a failed creation: the error code comes back and no file exists
C5_Witness ==
  /\ ret.op = "xocl_init_sysfs"
  /\ ret.rc = -12
  /\ ret.val = -12
  /\ sysfs_group = {}

\* C6: on the default path the number of slots returned is at least
\* min_slots (16) and at most max_slots (128).
C6_SlotsBounded ==
  (ErtReturned /\ ert_slotsize = 0) =>
    (ret.first >= min_slots /\ ret.first <= max_slots)

\* C6 as amended: on the default path the number of slots returned is at most
\* max_slots (128); it is at least min_slots (16) when the maximum CU size is at
\* most ERT_CQ_SIZE / min_slots.
C6_SlotsBoundedAmended ==
  (ErtReturned /\ ert_slotsize = 0) =>
    /\ ret.first <= max_slots
    /\ xml.max_cu_size <= ERT_CQ_SIZE \div min_slots => ret.first >= min_slots

\* many compute units with small CUs: the slot count is capped at max_slots
C6_Witness ==
  /\ ErtReturned
  /\ ert_slotsize = 0
  /\ xml.num_cus >= 64
  /\ xml.max_cu_size <= ERT_CQ_SIZE \div min_slots
  /\ ret.first = max_slots

\* C7: on the default path the slot size returned is at least the maximum CU
\* size of the xclbin, also after the slot count has been rounded up.  (Stated
\* for the xclbins whose largest CU fits the command queue: no slot can hold a
\* larger one.)
C7_SlotSizeFitsCu ==
  (ErtReturned /\ ert_slotsize = 0 /\ xml.max_cu_size <= ERT_CQ_SIZE) =>
    ret.second >= xml.max_cu_size

\* C8: on the default path a slot count above 16 computed from the command
\* queue size is rounded up to the next multiple of 32, so the returned count
\* is at most 16 or one of 32, 64, 96, 128, and the returned slot size is
\* ERT_CQ_SIZE divided by the returned count.
C8_RoundedSlots ==
  (ErtReturned /\ ert_slotsize = 0) =>
    /\ ret.first \in (0..16) \cup {32, 64, 96, 128}
    /\ ret.computed <= 16 => ret.first = ret.computed
    /\ ret.computed > 16 =>
         /\ ret.first % 32 = 0
         /\ ret.first >= ret.computed
         /\ ret.first - 32 < ret.computed
    /\ ret.first # 0 => ret.second = ERT_CQ_SIZE \div ret.first

\* 17 slots fit the command queue and are rounded up to 32
C8_Witness ==
  /\ ErtReturned
  /\ ert_slotsize = 0
  /\ ret.computed = 17
  /\ ret.first = 32
  /\ ret.second = 2048

====
